---- MODULE Spec2Model ----
(***************************************************************************)
(* The Daily Briefing Alexa skill (src/alexa_lambda_skills.js): the        *)
(* retrieval helper getBriefing over its four storage types, the six       *)
(* handlers and the SDK's dispatch over them, run by concurrent Lambda     *)
(* invocations against a shared store that a writer keeps changing.        *)
(***************************************************************************)
EXTENDS Integers, Sequences, FiniteSets, TLC

\* ------------------------------------------------------------------ bounds
\* Calendar dates are day numbers 0..MaxDay.
MaxDay == 5
\* Number of writes (put / upstream publish) in one behaviour; a write's
\* write-time attribute is its ordinal, so write-times are strictly increasing.
MaxWrites == 2
\* Number of requests the skill receives in one behaviour.
MaxRequests == 2

Dates == 0..MaxDay
\* The date keys writes are made for: the last day D of the model and the days
\* D-1, D-2 and D-5 before it.
Offsets == {0, 1, 2, 5}
DateKeys == {d \in Dates : MaxDay - d \in Offsets}
\* Concurrent Lambda invocations (one Alexa session each).
Sessions == {"s1", "s2"}
\* briefing_text values a stored document can carry; "" stands for a missing
\* or empty briefing_text (both falsy in JavaScript).
Texts == {"", "briefing A", "briefing B"}

\* ------------------------------------------------------- fixed sentences
PlaceholderText == "Here's your daily briefing. This is placeholder text if not using S3, DynamoDB, or an API."
LaunchNotFound == "I couldn't find a briefing for today. Please try again later."
LaunchTrouble == "I'm sorry, I'm having trouble retrieving your daily briefing."
RepeatNothing == "I don't have a briefing to repeat."
RepeatTrouble == "I'm having trouble repeating your briefing. Please try again later."
HelpSpeech == "This skill reads your personalized daily briefing..."
Goodbye == "Goodbye!"
ErrorSpeech == "Sorry, I had trouble processing that request. Please try again."
\* a response built without .speak(): no outputSpeech
NoSpeech == "<no speech>"

FixedSentences ==
  {LaunchNotFound, LaunchTrouble, RepeatNothing, RepeatTrouble,
   HelpSpeech, Goodbye, ErrorSpeech}

\* ------------------------------------------------------------ configuration
\* CONFIG.storageType: the four documented options and an unrecognised value.
StorageTypes == {"file", "s3", "dynamodb", "api", "redis"}

\* ------------------------------------------------------------------ values
Doc(d, t, u) == [date |-> d, briefing_text |-> t, last_updated |-> u]
NoDoc == Doc(-1, "", -1)

\* What a call of getBriefing gives its caller: a document, undefined, or a
\* raised error.
Returned(doc) == [kind |-> "doc", doc |-> doc]
ReturnedUndefined == [kind |-> "undefined", doc |-> NoDoc]
Raised == [kind |-> "raise", doc |-> NoDoc]
NoResult == [kind |-> "none", doc |-> NoDoc]

\* JSON text of a document, as the sequence of its tokens.
JSONstringify(doc) ==
  <<"{", "date", doc.date, "briefing_text", doc.briefing_text,
    "last_updated", doc.last_updated, "}">>

WellFormed(body) ==
  /\ Len(body) = 8
  /\ body[1] = "{" /\ body[8] = "}"
  /\ body[2] = "date" /\ body[4] = "briefing_text" /\ body[6] = "last_updated"

\* JSON.parse(s3Data.Body.toString()): the document, or a SyntaxError.
JSONparse(body) ==
  IF WellFormed(body) THEN Returned(Doc(body[3], body[5], body[7])) ELSE Raised

NoObject == [exists |-> FALSE, Body |-> <<>>]
NoUpstream == [exists |-> FALSE, doc |-> NoDoc]

\* Raw outcome of the awaited backend call, as the handler's continuation sees it.
\* code names the error of a failed call.
NoData == [kind |-> "none", code |-> "", Body |-> <<>>, Items |-> <<>>, value |-> NoDoc]
ReadError(code) == [NoData EXCEPT !.kind = "error", !.code = code]
\* A failure of the call itself: network, throttling, permissions.
Fault == "ServiceUnavailable"

\* ------------------------------------------------------------------ requests
NoIntent == "-"
RequestTypes ==
  {"LaunchRequest", "IntentRequest", "SessionEndedRequest", "CanFulfillIntentRequest"}
IntentNames ==
  {"AMAZON.RepeatIntent", "AMAZON.HelpIntent", "AMAZON.CancelIntent",
   "AMAZON.StopIntent", "AMAZON.FallbackIntent"}
Requests ==
  {r \in [type : RequestTypes, intent : IntentNames \cup {NoIntent}] :
     (r.type = "IntentRequest") <=> (r.intent # NoIntent)}
NoRequest == [type |-> "-", intent |-> NoIntent]

\* ------------------------------------------------------------------- state
VARIABLES
  storageType,  \* CONFIG.storageType
  today,        \* the calendar date new Date() shows
  now,          \* the instant new Date() shows: the number of writes so far
  s3Object,     \* the object at CONFIG.s3Bucket / CONFIG.s3Key
  table,        \* the rows of CONFIG.dynamoTable, keyed by (date, last_updated)
  apiData,      \* what CONFIG.apiEndpoint serves
  sess,         \* per invocation: the handler's position and locals
  nreq          \* requests received so far

vars == <<storageType, today, now, s3Object, table, apiData, sess, nreq>>
stores == <<s3Object, table, apiData>>

IdleSession ==
  [pc |-> "idle", req |-> NoRequest, handler |-> "-", today |-> 0,
   data |-> NoData, ret |-> NoResult, expected |-> NoResult,
   speech |-> NoSpeech, handledBy |-> "-", prevLaunch |-> NoSpeech]

Init ==
  /\ storageType \in StorageTypes
  /\ today = MaxDay - 1
  /\ now = 0
  /\ s3Object = NoObject
  /\ table = {}
  /\ apiData = NoUpstream
  /\ sess = [s \in Sessions |-> IdleSession]
  /\ nreq = 0

\* ------------------------------------------------------ the store's writers
\* put(date_key, doc) of the object store: the single blob is overwritten.
S3Put(doc) == [exists |-> TRUE, Body |-> JSONstringify(doc)]

\* put(date_key, doc) of the keyed table: a new row per write; a row with the
\* same primary key (date, last_updated) is replaced.
TablePut(tbl, doc) ==
  {r \in tbl : ~(r.date = doc.date /\ r.last_updated = doc.last_updated)} \cup {doc}

Put(date_key, text) ==
  /\ storageType \in {"s3", "dynamodb"}
  /\ now < MaxWrites
  /\ now' = now + 1
  /\ LET doc == Doc(date_key, text, now + 1) IN
       IF storageType = "s3"
       THEN s3Object' = S3Put(doc) /\ UNCHANGED table
       ELSE table' = TablePut(table, doc) /\ UNCHANGED s3Object
  /\ UNCHANGED <<storageType, today, apiData, sess, nreq>>

\* The upstream behind the API endpoint publishes a new document.
UpstreamPublish(date_key, text) ==
  /\ storageType = "api"
  /\ now < MaxWrites
  /\ now' = now + 1
  /\ apiData' = [exists |-> TRUE, doc |-> Doc(date_key, text, now + 1)]
  /\ UNCHANGED <<storageType, today, s3Object, table, sess, nreq>>

\* Midnight passes.
Tick ==
  /\ today < MaxDay
  /\ today' = today + 1
  /\ UNCHANGED <<storageType, now, s3Object, table, apiData, sess, nreq>>

\* ----------------------------------------------------------- backend reads
\* s3.getObject(s3Params).promise(): the object's body, or NoSuchKey.
S3GetObject(obj) ==
  IF obj.exists THEN [NoData EXCEPT !.kind = "s3", !.Body = obj.Body]
  ELSE ReadError("NoSuchKey")

\* The rows of a partition in sort-key order, ascending.
RECURSIVE SortedRows(_)
SortedRows(rows) ==
  IF rows = {} THEN <<>>
  ELSE LET first == CHOOSE r \in rows : \A q \in rows : r.last_updated <= q.last_updated
       IN <<first>> \o SortedRows(rows \ {first})

\* Faulty variant: the sort order is not reversed.
NotReversed(seq) == seq

Reverse(seq) == [i \in 1..Len(seq) |-> seq[Len(seq) + 1 - i]]

Limit(seq, n) == SubSeq(seq, 1, IF Len(seq) < n THEN Len(seq) ELSE n)

\* Faulty variant: the query without its key condition (a scan of every date).
DynamoQueryAnyDate(tbl, date) ==
  [NoData EXCEPT !.kind = "dynamodb", !.Items = Limit(Reverse(SortedRows(tbl)), 1)]

\* Faulty variant: ScanIndexForward left at its default, true.
DynamoQueryForward(tbl, date) ==
  [NoData EXCEPT !.kind = "dynamodb",
                 !.Items = Limit(SortedRows({r \in tbl : r.date = date}), 1)]

\* dynamodb.query(queryParams).promise(): KeyConditionExpression '#date = :date',
\* ScanIndexForward false, Limit 1.
DynamoQuery(tbl, date) ==
  LET matching == {r \in tbl : r.date = date}
  IN [NoData EXCEPT !.kind = "dynamodb",
                    !.Items = Limit(Reverse(SortedRows(matching)), 1)]

\* axios.get(CONFIG.apiEndpoint): the upstream's document, or an error status.
AxiosGet(up) ==
  IF up.exists THEN [NoData EXCEPT !.kind = "api", !.value = up.doc]
  ELSE ReadError("404")

\* What the configured backend answers to the call issued at lines 32, 46, 51.
BackendResponse(type, obj, tbl, up, date) ==
  CASE type = "s3" -> S3GetObject(obj)
    [] type = "dynamodb" -> DynamoQuery(tbl, date)
    [] type = "api" -> AxiosGet(up)
    [] OTHER -> NoData

\* ---------------------------------------------------------------- getBriefing
\* Faulty variant: only 'file' takes the placeholder branch; the default label is gone.
IsNotFile(type) == type # "file"

\* The case 'file' / default branch: no backend is read.
IsRemote(type) == type \in {"s3", "dynamodb", "api"}

PlaceholderDoc(date, instant) == Doc(date, PlaceholderText, instant)

\* Faulty variant: the catch block swallows the error instead of rethrowing it.
GetBriefingSwallow(type, data) ==
  CASE data.kind = "error" -> ReturnedUndefined
    [] type = "s3" -> JSONparse(data.Body)
    [] type = "dynamodb" ->
         IF Len(data.Items) >= 1 THEN Returned(data.Items[1]) ELSE ReturnedUndefined
    [] type = "api" -> Returned(data.value)
    [] OTHER -> Raised

\* Faulty variant: the dynamodb case falls back to the placeholder document when the
\* query matched nothing.
GetBriefingOrPlaceholder(type, data) ==
  CASE data.kind = "error" -> Raised
    [] type = "s3" -> JSONparse(data.Body)
    [] type = "dynamodb" ->
         IF Len(data.Items) >= 1 THEN Returned(data.Items[1])
         ELSE Returned(PlaceholderDoc(today, now))
    [] type = "api" -> Returned(data.value)
    [] OTHER -> Raised

\* The part of getBriefing after its await: the return statement of the case
\* taken, or the catch block's rethrow.
GetBriefingReturn(type, data) ==
  CASE data.kind = "error" -> Raised
    [] type = "s3" -> JSONparse(data.Body)
    [] type = "dynamodb" ->
         IF Len(data.Items) >= 1 THEN Returned(data.Items[1]) ELSE ReturnedUndefined
    [] type = "api" -> Returned(data.value)
    [] OTHER -> Raised

\* ------------------------------------------------------------------ handlers
\* What handle() gives the SDK instead of a response when it raises.
Thrown == "<thrown>"
\* The Lambda invocation ends with the raw error: no handler turned it into a
\* response.
InvocationFailed == "<invocation failed>"
NoHandler == "<none>"

\* The try block of LaunchRequestHandler.handle: getBriefing's error, and the
\* TypeError of undefined.briefing_text, leave it.
LaunchTry(ret) ==
  IF ret.kind = "doc"
  THEN IF ret.doc.briefing_text # "" THEN ret.doc.briefing_text ELSE LaunchNotFound
  ELSE Thrown

LaunchSpeak(ret) == IF LaunchTry(ret) = Thrown THEN LaunchTrouble ELSE LaunchTry(ret)

RepeatTry(ret) ==
  IF ret.kind = "doc"
  THEN IF ret.doc.briefing_text # "" THEN ret.doc.briefing_text ELSE RepeatNothing
  ELSE Thrown

RepeatSpeak(ret) == IF RepeatTry(ret) = Thrown THEN RepeatTrouble ELSE RepeatTry(ret)

BriefingHandlers == {"LaunchRequestHandler", "RepeatIntentHandler"}

\* What handler h's handle() gives the SDK; with no handler chosen the SDK
\* itself raises.
Handle(h, ret) ==
  CASE h = "LaunchRequestHandler" -> LaunchSpeak(ret)
    [] h = "RepeatIntentHandler" -> RepeatSpeak(ret)
    [] h = "HelpIntentHandler" -> HelpSpeech
    [] h = "CancelAndStopIntentHandler" -> Goodbye
    [] h = "SessionEndedRequestHandler" -> NoSpeech
    [] OTHER -> Thrown

\* Faulty variant: HelpIntentHandler tests the request type alone, not the
\* intent name.
CanHandleAnyIntent(h, req) ==
  CASE h = "LaunchRequestHandler" -> req.type = "LaunchRequest"
    [] h = "RepeatIntentHandler" ->
         req.type = "IntentRequest" /\ req.intent = "AMAZON.RepeatIntent"
    [] h = "HelpIntentHandler" -> req.type = "IntentRequest"
    [] h = "CancelAndStopIntentHandler" ->
         req.type = "IntentRequest"
           /\ (req.intent = "AMAZON.CancelIntent" \/ req.intent = "AMAZON.StopIntent")
    [] h = "SessionEndedRequestHandler" -> req.type = "SessionEndedRequest"
    [] h = "ErrorHandler" -> TRUE
    [] OTHER -> FALSE

CanHandle(h, req) ==
  CASE h = "LaunchRequestHandler" -> req.type = "LaunchRequest"
    [] h = "RepeatIntentHandler" ->
         req.type = "IntentRequest" /\ req.intent = "AMAZON.RepeatIntent"
    [] h = "HelpIntentHandler" ->
         req.type = "IntentRequest" /\ req.intent = "AMAZON.HelpIntent"
    [] h = "CancelAndStopIntentHandler" ->
         req.type = "IntentRequest"
           /\ (req.intent = "AMAZON.CancelIntent" \/ req.intent = "AMAZON.StopIntent")
    [] h = "SessionEndedRequestHandler" -> req.type = "SessionEndedRequest"
    [] h = "ErrorHandler" -> TRUE
    [] OTHER -> FALSE

\* Faulty variant: SessionEndedRequestHandler is not registered.
RequestHandlersShort ==
  <<"LaunchRequestHandler", "RepeatIntentHandler", "HelpIntentHandler",
    "CancelAndStopIntentHandler">>

\* addRequestHandlers(...) and addErrorHandlers(...), in registration order.
RequestHandlers ==
  <<"LaunchRequestHandler", "RepeatIntentHandler", "HelpIntentHandler",
    "CancelAndStopIntentHandler", "SessionEndedRequestHandler">>
\* Faulty variant: addErrorHandlers(ErrorHandler) left out.
NoErrorHandlers == <<>>
ErrorHandlers == <<"ErrorHandler">>

\* The first handler of the list, from position i on, whose canHandle accepts.
RECURSIVE FirstMatch(_, _, _)
FirstMatch(handlers, i, req) ==
  IF i > Len(handlers) THEN NoHandler
  ELSE IF CanHandle(handlers[i], req) THEN handlers[i]
  ELSE FirstMatch(handlers, i + 1, req)

\* The request handler the skill picks for a request, NoHandler with none.
Dispatch(req) == FirstMatch(RequestHandlers, 1, req)

\* ------------------------------------------------------------ invocations
\* A request arrives at an idle invocation and the SDK picks its handler.
Begin(s, req, h) ==
  /\ sess[s].pc = "idle"
  /\ nreq < MaxRequests
  /\ Dispatch(req) = h

\* What the session's previous response spoke, when LaunchRequestHandler gave it.
LaunchSpoken(s) ==
  IF sess[s].handledBy = "LaunchRequestHandler" THEN sess[s].speech ELSE NoSpeech

\* The invocation's locals at the start of a request. Until the response is
\* built, prevLaunch keeps what was spoken to the session's previous request
\* when that was a LaunchRequest.
Fresh(s, req, h) ==
  [IdleSession EXCEPT !.req = req, !.handler = h, !.prevLaunch = LaunchSpoken(s)]

\* The invocation ends: with the handler's response, or, when the handler
\* raised or none was found, with the response of the first error handler that
\* accepts, or with the raw error when there is none.
Respond(s, rec, outcome) ==
  LET eh == FirstMatch(ErrorHandlers, 1, rec.req)
      by == IF outcome # Thrown THEN rec.handler ELSE eh
      speech == IF outcome # Thrown THEN outcome
                ELSE IF eh # NoHandler THEN ErrorSpeech ELSE InvocationFailed
  IN sess' = [sess EXCEPT ![s] =
                [rec EXCEPT !.pc = "idle", !.speech = speech, !.handledBy = by,
                            !.prevLaunch = NoSpeech]]

\* handle() up to `await getBriefing()`: a remote storage type issues its read
\* (the keyed table's after computing today's date) and waits; 'file' and any
\* unrecognised type return the placeholder document at once.
GetBriefingCall(s, rec) ==
  IF IsRemote(storageType)
  THEN sess' = [sess EXCEPT ![s] =
                  [rec EXCEPT !.pc = "await",
                              !.today = IF storageType = "dynamodb" THEN today ELSE 0]]
  ELSE LET ret == Returned(PlaceholderDoc(today, now))
       IN Respond(s, [rec EXCEPT !.ret = ret, !.expected = ret],
                  Handle(rec.handler, ret))

LaunchRequest(s) ==
  /\ \E req \in Requests :
       /\ Begin(s, req, "LaunchRequestHandler")
       /\ GetBriefingCall(s, Fresh(s, req, "LaunchRequestHandler"))
  /\ nreq' = nreq + 1
  /\ UNCHANGED <<storageType, today, now, s3Object, table, apiData>>

RepeatIntent(s) ==
  /\ \E req \in Requests :
       /\ Begin(s, req, "RepeatIntentHandler")
       /\ GetBriefingCall(s, Fresh(s, req, "RepeatIntentHandler"))
  /\ nreq' = nreq + 1
  /\ UNCHANGED <<storageType, today, now, s3Object, table, apiData>>

\* The backend serves the read, or the call fails.
BackendRead(s, fail) ==
  /\ sess[s].pc = "await"
  /\ LET data == IF fail THEN ReadError(Fault)
                 ELSE BackendResponse(storageType, s3Object, table, apiData,
                                      sess[s].today)
     IN sess' = [sess EXCEPT ![s].pc = "resume", ![s].data = data,
                             ![s].expected = GetBriefingReturn(storageType, data)]
  /\ UNCHANGED <<storageType, today, now, s3Object, table, apiData, nreq>>

\* Faulty variant: the continuation reads the store a second time and uses that.
AwaitedReread(s) ==
  BackendResponse(storageType, s3Object, table, apiData, sess[s].today)

\* The data the continuation of getBriefing holds in its local const.
Awaited(s) == sess[s].data

\* getBriefing resumes after its await and the handler builds the response.
Resume(s) ==
  /\ sess[s].pc = "resume"
  /\ LET ret == GetBriefingReturn(storageType, Awaited(s))
     IN Respond(s, [sess[s] EXCEPT !.ret = ret], Handle(sess[s].handler, ret))
  /\ UNCHANGED <<storageType, today, now, s3Object, table, apiData, nreq>>

HelpIntent(s) ==
  /\ \E req \in Requests :
       /\ Begin(s, req, "HelpIntentHandler")
       /\ Respond(s, Fresh(s, req, "HelpIntentHandler"),
                  Handle("HelpIntentHandler", NoResult))
  /\ nreq' = nreq + 1
  /\ UNCHANGED <<storageType, today, now, s3Object, table, apiData>>

CancelAndStopIntent(s) ==
  /\ \E req \in Requests :
       /\ Begin(s, req, "CancelAndStopIntentHandler")
       /\ Respond(s, Fresh(s, req, "CancelAndStopIntentHandler"),
                  Handle("CancelAndStopIntentHandler", NoResult))
  /\ nreq' = nreq + 1
  /\ UNCHANGED <<storageType, today, now, s3Object, table, apiData>>

SessionEndedRequest(s) ==
  /\ \E req \in Requests :
       /\ Begin(s, req, "SessionEndedRequestHandler")
       /\ Respond(s, Fresh(s, req, "SessionEndedRequestHandler"),
                  Handle("SessionEndedRequestHandler", NoResult))
  /\ nreq' = nreq + 1
  /\ UNCHANGED <<storageType, today, now, s3Object, table, apiData>>

\* No request handler accepts the request: the SDK raises in place of a handler.
UnhandledRequest(s) ==
  /\ \E req \in Requests :
       /\ Begin(s, req, NoHandler)
       /\ Respond(s, Fresh(s, req, NoHandler), Handle(NoHandler, NoResult))
  /\ nreq' = nreq + 1
  /\ UNCHANGED <<storageType, today, now, s3Object, table, apiData>>

\* One session at a time: the skill answers the requests of a single session
\* while the writer and the calendar go on.
Sequential == {"s1"}

Next ==
  \/ \E d \in DateKeys, t \in Texts : Put(d, t)
  \/ \E d \in DateKeys, t \in Texts : UpstreamPublish(d, t)
  \/ Tick
  \/ \E s \in Sequential : LaunchRequest(s)
  \/ \E s \in Sequential : RepeatIntent(s)
  \/ \E s \in Sequential, fail \in BOOLEAN : BackendRead(s, fail)
  \/ \E s \in Sequential : Resume(s)
  \/ \E s \in Sequential : HelpIntent(s)
  \/ \E s \in Sequential : CancelAndStopIntent(s)
  \/ \E s \in Sequential : SessionEndedRequest(s)
  \/ \E s \in Sequential : UnhandledRequest(s)

Spec == Init /\ [][Next]_vars

\* Concurrent invocations: the requests that call getBriefing, in every
\* session at once, interleaved with the writer, within one calendar day.
NextConcurrent ==
  \/ \E d \in DateKeys, t \in Texts : Put(d, t)
  \/ \E d \in DateKeys, t \in Texts : UpstreamPublish(d, t)
  \/ \E s \in Sessions : LaunchRequest(s)
  \/ \E s \in Sessions : RepeatIntent(s)
  \/ \E s \in Sessions, fail \in BOOLEAN : BackendRead(s, fail)
  \/ \E s \in Sessions : Resume(s)

SpecConcurrent == Init /\ [][NextConcurrent]_vars

\* ===================================================================== claims
\* The invocation of session s has answered a request.
Completed(s) == sess[s].pc = "idle" /\ sess[s].req # NoRequest
\* ... and its handler called getBriefing.
Retrieved(s) == Completed(s) /\ sess[s].handler \in BriefingHandlers
\* The step in which the backend serves (or fails) the read of s.
ReadStep(s) == sess[s].pc = "await" /\ sess'[s].pc = "resume"

\* C1: every request, whatever the backend read does, ends with a normal
\* response whose speech, if any, is the briefing text or one of the fixed
\* sentences; the raw error never reaches the user.
C1_NoRawError ==
  \A s \in Sessions : Completed(s) =>
    /\ sess[s].speech \notin {InvocationFailed, Thrown}
    /\ sess[s].handledBy # NoHandler
    /\ \/ sess[s].speech = NoSpeech /\ sess[s].handledBy = "SessionEndedRequestHandler"
       \/ sess[s].speech \in FixedSentences
       \/ /\ sess[s].ret.kind = "doc"
          /\ sess[s].speech = sess[s].ret.doc.briefing_text

\* A LaunchRequest whose backend read failed was answered with the apology.
C1_Witness ==
  \E s \in Sessions :
    /\ Completed(s) /\ sess[s].req.type = "LaunchRequest"
    /\ sess[s].data.code = Fault
    /\ sess[s].speech = LaunchTrouble

\* C2 (as claimed): getBriefing never fails outward; every call completes by
\* returning a briefing document.
C2_NeverFailsOutward ==
  \A s \in Sessions : Retrieved(s) => sess[s].ret.kind = "doc"

\* C2 (amended): getBriefing re-raises exactly when the backend read raised,
\* returns undefined exactly when the keyed-table query matched no row, and
\* returns a document otherwise; 'file' and unrecognised types always do.
C2_FailsAsBackendFails ==
  \A s \in Sessions : Retrieved(s) =>
    /\ sess[s].ret.kind \in {"doc", "undefined", "raise"}
    /\ (sess[s].ret.kind = "raise") <=> (sess[s].data.kind = "error")
    /\ (sess[s].ret.kind = "undefined") <=>
         (sess[s].data.kind = "dynamodb" /\ sess[s].data.Items = <<>>)
    /\ ~IsRemote(storageType) => sess[s].ret.kind = "doc"

\* A read of the object store that found no object made getBriefing raise.
C2_Witness ==
  \E s \in Sessions :
    /\ Retrieved(s) /\ storageType = "s3"
    /\ sess[s].data.code = "NoSuchKey"
    /\ sess[s].ret.kind = "raise"

\* The table holds documents for D-2 and D-5 and none for D and D-1.
FallbackScenario(tbl, D) ==
  /\ \E r \in tbl : r.date = D - 2
  /\ \E r \in tbl : r.date = D - 5
  /\ ~ \E r \in tbl : r.date \in {D, D - 1}

\* C3 (as claimed): with documents for D-2 and D-5 and none for D and D-1,
\* retrieving the briefing for D returns the D-2 document.
C3_FallbackToDMinus2 ==
  [][\A s \in Sessions :
       (/\ ReadStep(s) /\ storageType = "dynamodb"
        /\ FallbackScenario(table, sess[s].today)
        /\ sess'[s].data.code # Fault)
       => /\ sess'[s].expected.kind = "doc"
          /\ sess'[s].expected.doc.date = sess[s].today - 2]_vars

\* C3 (amended): in that situation the keyed-table query, which asks for date D
\* alone, matches nothing and getBriefing returns an absent document: neither
\* the D-2 nor the D-5 document.
C3_NoLookBack ==
  [][\A s \in Sessions :
       (/\ ReadStep(s) /\ storageType = "dynamodb"
        /\ FallbackScenario(table, sess[s].today)
        /\ sess'[s].data.code # Fault)
       => /\ sess'[s].data.Items = <<>>
          /\ sess'[s].expected = ReturnedUndefined]_vars

\* A query for D was served while the table held D-2 and D-5 only.
C3_Witness ==
  \E s \in Sessions :
    /\ sess[s].pc = "resume" /\ storageType = "dynamodb"
    /\ sess[s].data.kind = "dynamodb"
    /\ FallbackScenario(table, sess[s].today)
    /\ sess[s].expected = ReturnedUndefined

\* The sources the project aggregates.
Sources == {"arxiv", "hackernews", "rss"}

StoreEmpty == s3Object = NoObject /\ table = {} /\ apiData = NoUpstream

\* The step in which the getBriefing call of s settles: its backend read is
\* served, or the 'file'/default branch returns at once.
Settles(s) ==
  \/ ReadStep(s)
  \/ /\ sess[s].pc = "idle" /\ sess'[s].pc = "idle" /\ sess'[s] # sess[s]
     /\ sess'[s].handler \in BriefingHandlers

IsDegradedPlaceholder(r) ==
  /\ r.kind = "doc"
  /\ "degraded" \in DOMAIN r.doc /\ r.doc.degraded = TRUE
  /\ "missing_sources" \in DOMAIN r.doc /\ r.doc.missing_sources = Sources

\* C4 (as claimed): with an empty store, retrieval returns a placeholder
\* document with degraded = true and missing_sources = every source, and
\* neither raises nor returns an absent document.
C4_OutagePlaceholder ==
  [][\A s \in Sessions :
       (Settles(s) /\ StoreEmpty /\ sess'[s].data.code # Fault)
       => IsDegradedPlaceholder(sess'[s].expected)]_vars

\* C4 (amended): with an empty store, getBriefing returns an absent document
\* for the keyed table, raises for the object store and the API, and for 'file'
\* and unrecognised types returns the static placeholder, whose only fields
\* are date, briefing_text and last_updated.
C4_OutageAsIs ==
  [][\A s \in Sessions :
       (Settles(s) /\ StoreEmpty /\ sess'[s].data.code # Fault)
       => /\ storageType = "dynamodb" => sess'[s].expected = ReturnedUndefined
          /\ storageType \in {"s3", "api"} => sess'[s].expected = Raised
          /\ ~IsRemote(storageType) =>
               /\ sess'[s].expected = Returned(PlaceholderDoc(today, now))
               /\ DOMAIN sess'[s].expected.doc =
                    {"date", "briefing_text", "last_updated"}]_vars

\* A query of the empty table was served and gave no document.
C4_Witness ==
  \E s \in Sessions :
    /\ sess[s].pc = "resume" /\ storageType = "dynamodb"
    /\ table = {} /\ sess[s].data.kind = "dynamodb"
    /\ sess[s].expected = ReturnedUndefined

\* The document of the latest put to the configured writable store.
LastPut ==
  IF storageType = "s3" THEN JSONparse(s3Object.Body).doc
  ELSE CHOOSE r \in table : r.last_updated = now

C6_LastWriteWins ==
  [][\A s \in Sessions :
       (ReadStep(s) /\ storageType = "dynamodb" /\ sess'[s].data.code # Fault)
       => LET rows == {r \in table : r.date = sess[s].today}
              items == sess'[s].data.Items
          IN IF rows = {}
             THEN items = <<>> /\ sess'[s].expected = ReturnedUndefined
             ELSE /\ Len(items) = 1
                  /\ items[1] \in rows
                  /\ \A q \in rows : q.last_updated <= items[1].last_updated
                  /\ sess'[s].expected = Returned(items[1])]_vars

\* A query was served while two rows carried the date asked.
C6_Witness ==
  \E s \in Sessions :
    /\ sess[s].pc = "resume" /\ storageType = "dynamodb"
    /\ Cardinality({r \in table : r.date = sess[s].today}) >= 2
    /\ Len(sess[s].data.Items) = 1
    /\ \A q \in table : q.last_updated <= sess[s].data.Items[1].last_updated

IsPlaceholder(r) == r.kind = "doc" /\ r.doc.briefing_text = PlaceholderText

\* C7 (as claimed): getBriefing returns the placeholder document only when the
\* storage type explicitly names the placeholder variant.
C7_PlaceholderOnlyExplicit ==
  \A s \in Sessions :
    (Retrieved(s) /\ IsPlaceholder(sess[s].ret)) => storageType = "file"

\* C7 (amended): getBriefing returns the placeholder document exactly when the
\* storage type is none of 's3', 'dynamodb', 'api': for 'file' and for every
\* unrecognised value.
C7_PlaceholderIsDefault ==
  \A s \in Sessions :
    Retrieved(s) =>
      (IsPlaceholder(sess[s].ret) <=> storageType \notin {"s3", "dynamodb", "api"})

\* An unrecognised storage type was answered with the placeholder document.
C7_Witness ==
  \E s \in Sessions :
    /\ Retrieved(s) /\ storageType = "redis"
    /\ IsPlaceholder(sess[s].ret)

\* The handler each request belongs to.
ExpectedHandler(req) ==
  CASE req.type = "LaunchRequest" -> "LaunchRequestHandler"
    [] req.type = "IntentRequest" /\ req.intent = "AMAZON.RepeatIntent" ->
         "RepeatIntentHandler"
    [] req.type = "IntentRequest" /\ req.intent = "AMAZON.HelpIntent" ->
         "HelpIntentHandler"
    [] req.type = "IntentRequest"
         /\ req.intent \in {"AMAZON.CancelIntent", "AMAZON.StopIntent"} ->
         "CancelAndStopIntentHandler"
    [] req.type = "SessionEndedRequest" -> "SessionEndedRequestHandler"
    [] OTHER -> "ErrorHandler"

\* C8: dispatch is first-match-wins over the registration order Launch,
\* Repeat, Help, CancelAndStop, SessionEnded, the first accepting handler
\* alone answers, and a request none accepts is answered by the error handler,
\* whose predicate accepts everything.
C8_FirstMatchWins ==
  /\ \A req \in Requests : CanHandle("ErrorHandler", req)
  /\ \A s \in Sessions : Completed(s) =>
       LET req == sess[s].req
           accepting == {i \in 1..Len(RequestHandlers) :
                           CanHandle(RequestHandlers[i], req)}
       IN /\ sess[s].handledBy = ExpectedHandler(req)
          /\ IF accepting = {}
             THEN /\ sess[s].handler = NoHandler
                  /\ sess[s].handledBy = "ErrorHandler"
                  /\ sess[s].speech = ErrorSpeech
             ELSE /\ \E i \in accepting :
                       /\ \A j \in accepting : i <= j
                       /\ sess[s].handler = RequestHandlers[i]
                  /\ sess[s].handledBy = sess[s].handler

\* A request no request handler accepts was answered by ErrorHandler.
C8_Witness ==
  \E s \in Sessions :
    /\ Completed(s) /\ sess[s].req.intent = "AMAZON.FallbackIntent"
    /\ sess[s].handledBy = "ErrorHandler"

\* What getBriefing returns when it runs alone against a store.
RunAlone(type, obj, tbl, up, date) ==
  GetBriefingReturn(type, BackendResponse(type, obj, tbl, up, date))

\* C9: retrieval is read-only and safe under concurrency: no step of an
\* invocation changes a store, and each call returns what it would have
\* returned running alone against the stores as they were at its read.
C9_ReadOnlyConcurrent ==
  /\ [][(\E s \in Sessions : sess'[s] # sess[s]) => UNCHANGED stores]_vars
  /\ [][\A s \in Sessions :
          (ReadStep(s) /\ sess'[s].data.code # Fault)
          => sess'[s].expected =
               RunAlone(storageType, s3Object, table, apiData, sess[s].today)]_vars
  /\ [](\A s \in Sessions : Retrieved(s) => sess[s].ret = sess[s].expected)

\* One call read before the second write and has not returned yet; another read
\* after it and has returned the newer document.
C9_Witness ==
  \E s, t \in Sessions :
    /\ s # t /\ now = 2
    /\ sess[s].pc = "resume" /\ sess[s].expected.kind = "doc"
    /\ sess[s].expected.doc.last_updated = 1
    /\ Retrieved(t) /\ sess[t].ret.kind = "doc"
    /\ sess[t].ret.doc.last_updated = 2

\* The step in which the invocation of s answers its request.
Answers(s) == sess'[s].pc = "idle" /\ sess'[s] # sess[s]

SpokeBriefing(speech) ==
  speech \notin FixedSentences \cup {NoSpeech, InvocationFailed, Thrown}

\* What the LaunchRequest before the request being answered spoke.
PreviousLaunch(s) ==
  IF sess[s].pc = "idle" THEN LaunchSpoken(s) ELSE sess[s].prevLaunch

\* C10: when a LaunchRequest spoke briefing text T and the session's next
\* request is AMAZON.RepeatIntent, the response to it speaks T again, whatever
\* happened to the store in between.
C10_RepeatSpeaksSame ==
  [][\A s \in Sessions :
       (/\ Answers(s)
        /\ sess'[s].handler = "RepeatIntentHandler"
        /\ SpokeBriefing(PreviousLaunch(s)))
       => sess'[s].speech = PreviousLaunch(s)]_vars

\* The backend read of s completed without raising: it was served, or the
\* storage type reads nothing.
ReadCompleted(s) == sess[s].data.kind # "error"

\* getBriefing gave no briefing text: no document at all, or a document whose
\* briefing_text is missing or empty.
NoBriefingText(r) == r.kind # "doc" \/ r.doc.briefing_text = ""

\* The sentence a handler speaks for a briefing that was not found.
NotFoundSentence(h) ==
  IF h = "LaunchRequestHandler" THEN LaunchNotFound ELSE RepeatNothing

\* C11: whenever the backend read completes without raising but yields no
\* briefing text (no document at all, or a document with a missing or empty
\* briefing_text), LaunchRequest speaks its not-found sentence and RepeatIntent
\* its nothing-to-repeat sentence; the retrieval-trouble apology is spoken only
\* when the backend read itself raised.
C11_NotFoundWhenNoText ==
  \A s \in Sessions : Retrieved(s) =>
    /\ (ReadCompleted(s) /\ NoBriefingText(sess[s].ret))
         => sess[s].speech = NotFoundSentence(sess[s].handler)
    /\ sess[s].speech \in {LaunchTrouble, RepeatTrouble} => ~ReadCompleted(s)

\* Every order the five request handlers can be registered in.
Orders ==
  {p \in [1..Len(RequestHandlers) -> 1..Len(RequestHandlers)] :
     \A i, j \in DOMAIN p : p[i] = p[j] => i = j}

Registered(p) == [i \in 1..Len(RequestHandlers) |-> RequestHandlers[p[i]]]

\* The registered request handlers whose predicate accepts req.
Accepting(req) ==
  {i \in 1..Len(RequestHandlers) : CanHandle(RequestHandlers[i], req)}

\* The pairs of a request and a handler first-match dispatch chooses for it in
\* some order of registration.
ChosenInSomeOrder ==
  {<<req, FirstMatch(Registered(p), 1, req)>> : req \in Requests, p \in Orders}

\* C12: the five request-handler predicates are pairwise disjoint: at most one
\* of Launch, Repeat, Help, CancelAndStop and SessionEnded accepts any request,
\* so the handler chosen for a request is the same under every permutation of
\* the registration order.
C12_DisjointPredicates ==
  /\ \A req \in Requests : Cardinality(Accepting(req)) <= 1
  /\ \A s \in Sessions : Completed(s) =>
       /\ <<sess[s].req, sess[s].handler>> \in ChosenInSomeOrder
       /\ \A c \in ChosenInSomeOrder : c[1] = sess[s].req => c[2] = sess[s].handler

\* An AMAZON.StopIntent request was answered by CancelAndStopIntentHandler, the
\* fourth handler registered, which is also chosen when the order is reversed.
C12_Witness ==
  \E s \in Sessions :
    /\ Completed(s) /\ sess[s].req.intent = "AMAZON.StopIntent"
    /\ sess[s].handler = "CancelAndStopIntentHandler"
    /\ sess[s].handledBy = "CancelAndStopIntentHandler"
    /\ FirstMatch(Reverse(RequestHandlers), 1, sess[s].req) = sess[s].handler

====
